---- MODULE Spec2Model ----
(***************************************************************************)
(* A model of cyoa/tools/merge_tools.py: the content hash, the alignment   *)
(* of two keyed sequences (difflib.SequenceMatcher.get_opcodes), the       *)
(* field-level merge update_dict and the segment loop diff_sequence with   *)
(* the row/object callbacks that ProjectMergeTool.run installs.            *)
(*                                                                         *)
(* A record (Row or Object) is a function from key names to values.  A     *)
(* Python list is a sequence; slices a[lo:hi] are 0-based and half-open    *)
(* as in the source and are translated by Slice.  The skip/only argument   *)
(* lists are only read through `in` and len(..) > 0, so they are sets.     *)
(***************************************************************************)
EXTENDS Integers, Sequences, FiniteSets, TLC

VARIABLES
    seq_a,      \* self.project["rows"]: the old rows (update_row mutates them)
    seq_b,      \* patch_project["rows"]: the new rows (update_row mutates them)
    old0,       \* snapshot of seq_a taken when diff_sequence is called
    new0,       \* snapshot of seq_b taken when diff_sequence is called
    args,       \* args.skip_rows, only_rows, skip_objs, only_objs
    pc,         \* "start" | "loop" | "done" | "error": position in diff_sequence
    ops,        \* seq_match.get_opcodes()
    idx,        \* index of the opcode the for loop of line 54 is at
    seq_out,    \* seq_out
    origin,     \* for each record of seq_out, the index in seq_a it stems from (0: from seq_b)
    counts,     \* equal_count, replace_count, delete_count, insert_count
    log,        \* the callbacks' console lines and the call of summary, as events
    d_old,      \* update_dict: old_data
    d_new,      \* update_dict: new_data
    d_res       \* update_dict: what the call gave, [pc |-> "call"] before it

vars == <<seq_a, seq_b, old0, new0, args, pc, ops, idx, seq_out, origin, counts,
          log, d_old, d_new, d_res>>

mergeVars == <<seq_a, seq_b, old0, new0, args, pc, ops, idx, seq_out, origin,
               counts, log>>

dictVars == <<d_old, d_new, d_res>>

-----------------------------------------------------------------------------
(* Bounds of the model *)

\* longest old / new row sequence
MaxLen == 2

-----------------------------------------------------------------------------
(* Keys *)

IMPORTANT_KEYS == <<"id", "title", "titleText", "text", "scores">>

SPECIAL_KEYS == IMPORTANT_KEYS \o <<"addons", "image", "requireds">>

IGNORE_KEYS == <<"currentChoices", "isActive", "isEditModeOn">>

Range(s) == {s[i] : i \in 1..Len(s)}

\* Every key that is not a special key, in the order sorted() gives them.
SortedRestKeys == <<"currentChoices", "isActive", "isEditModeOn", "note", "objects">>

\* Every key, in the order json.dumps(sort_keys=True) writes them.
SortedKeys == <<"addons", "currentChoices", "id", "image", "isActive", "isEditModeOn",
                "note", "objects", "requireds", "scores", "text", "title", "titleText">>

Has(d, key) == key \in DOMAIN d

\* d[key] = value on a dict
Put(d, key, value) == [k \in DOMAIN d \cup {key} |-> IF k = key THEN value ELSE d[k]]

\* the dict left by d.pop(key, default)
Pop(d, key) == [k \in DOMAIN d \ {key} |-> d[k]]

\* the value d.pop(key, default) returns
PopValue(d, key, default) == IF Has(d, key) THEN d[key] ELSE default

EmptyDict == [k \in {} |-> 0]

\* a[lo:hi] of Python, on a 1-based sequence
Slice(s, lo, hi) == SubSeq(s, lo + 1, hi)

-----------------------------------------------------------------------------
(* obj_hash: json.dumps(value, sort_keys=True) then sha1.  The digest is    *)
(* modelled by the serialisation it is taken of: the (key, value) pairs in *)
(* sorted key order, a list element by element.                            *)

KeysOf(d) == SelectSeq(SortedKeys, LAMBDA k : Has(d, k))

\* a record whose values are scalars (an Object, or a Row with its objects popped)
DumpFlat(d) == [i \in 1..Len(KeysOf(d)) |-> <<KeysOf(d)[i], d[KeysOf(d)[i]]>>]

\* a list of Objects
DumpList(l) == [i \in 1..Len(l) |-> DumpFlat(l[i])]

\* a record that may hold an "objects" list
obj_hash(d) ==
    [i \in 1..Len(KeysOf(d)) |->
        LET k == KeysOf(d)[i]
        IN  <<k, IF k = "objects" THEN DumpList(d[k]) ELSE d[k]>>]

hash_objects(seq) == [i \in 1..Len(seq) |-> <<seq[i]["id"], obj_hash(seq[i])>>]

-----------------------------------------------------------------------------
(* update_dict *)

rest_keys(old_data, new_data) ==
    SelectSeq(SortedRestKeys, LAMBDA k : Has(old_data, k) \/ Has(new_data, k))

\* One pass of the loop of line 170.  acc holds result_dict (data),
\* result_changed (changed), the rows added to diff_table (table), the keys
\* that set result_changed (flagged) and whether a KeyError was raised (err).
\* (UpdateKeyDropsEqual is UpdateKey with line 195 left out: the branch of an
\* unchanged important key adds its row to diff_table and copies nothing.)
UpdateKeyDropsEqual(acc, key, old_data, new_data) ==
    IF acc.err THEN acc
    ELSE IF key \in Range(IGNORE_KEYS) THEN
        IF Has(old_data, key)
        THEN [acc EXCEPT !.data = Put(@, key, old_data[key])]
        ELSE [acc EXCEPT !.err = TRUE]
    ELSE IF Has(old_data, key) /\ Has(new_data, key) /\ old_data[key] # new_data[key] THEN
        [acc EXCEPT !.data = Put(@, key, new_data[key]), !.changed = TRUE,
                    !.flagged = @ \cup {key}, !.table = Append(@, <<key, "old", "new">>)]
    ELSE IF Has(old_data, key) /\ ~Has(new_data, key) THEN
        [acc EXCEPT !.changed = TRUE, !.flagged = @ \cup {key},
                    !.table = Append(@, <<key, "old", "N/A">>)]
    ELSE IF ~Has(old_data, key) /\ Has(new_data, key) THEN
        [acc EXCEPT !.data = Put(@, key, new_data[key]), !.changed = TRUE,
                    !.flagged = @ \cup {key}, !.table = Append(@, <<key, "N/A", "new">>)]
    ELSE IF key \in Range(IMPORTANT_KEYS) /\ Has(old_data, key) THEN
        [acc EXCEPT !.table = Append(@, <<key, "old", "==">>)]
    ELSE IF Has(old_data, key) THEN
        [acc EXCEPT !.data = Put(@, key, old_data[key])]
    ELSE acc

UpdateKey(acc, key, old_data, new_data) ==
    IF acc.err THEN acc
    ELSE IF key \in Range(IGNORE_KEYS) THEN
        \* old_data[key] raises KeyError when only new_data has the key
        IF Has(old_data, key)
        THEN [acc EXCEPT !.data = Put(@, key, old_data[key])]
        ELSE [acc EXCEPT !.err = TRUE]
    ELSE IF Has(old_data, key) /\ Has(new_data, key) /\ old_data[key] # new_data[key] THEN
        [acc EXCEPT !.data = Put(@, key, new_data[key]), !.changed = TRUE,
                    !.flagged = @ \cup {key}, !.table = Append(@, <<key, "old", "new">>)]
    ELSE IF Has(old_data, key) /\ ~Has(new_data, key) THEN
        [acc EXCEPT !.changed = TRUE, !.flagged = @ \cup {key},
                    !.table = Append(@, <<key, "old", "N/A">>)]
    ELSE IF ~Has(old_data, key) /\ Has(new_data, key) THEN
        [acc EXCEPT !.data = Put(@, key, new_data[key]), !.changed = TRUE,
                    !.flagged = @ \cup {key}, !.table = Append(@, <<key, "N/A", "new">>)]
    ELSE IF key \in Range(IMPORTANT_KEYS) /\ Has(old_data, key) THEN
        [acc EXCEPT !.data = Put(@, key, old_data[key]),
                    !.table = Append(@, <<key, "old", "==">>)]
    ELSE IF Has(old_data, key) THEN
        [acc EXCEPT !.data = Put(@, key, old_data[key])]
    ELSE acc

RECURSIVE UpdateKeys(_, _, _, _)
UpdateKeys(acc, keys, old_data, new_data) ==
    IF keys = <<>> THEN acc
    ELSE UpdateKeys(UpdateKey(acc, Head(keys), old_data, new_data), Tail(keys),
                    old_data, new_data)

\* update_dict(old_data, new_data): data is the dict returned (old_data itself
\* when nothing set result_changed), err says that KeyError was raised instead.
update_dict(old_data, new_data) ==
    LET acc0 == [err |-> FALSE, data |-> EmptyDict, changed |-> FALSE,
                 flagged |-> {}, table |-> <<>>]
        acc  == UpdateKeys(acc0, SPECIAL_KEYS \o rest_keys(old_data, new_data),
                           old_data, new_data)
    IN  IF acc.err THEN [acc EXCEPT !.data = EmptyDict]
        ELSE IF acc.changed THEN acc
        ELSE [acc EXCEPT !.data = old_data]

-----------------------------------------------------------------------------
(* difflib.SequenceMatcher(a=seq_a_hash, b=seq_b_hash).get_opcodes(), with  *)
(* no junk (isjunk is None, and autojunk needs 200 elements).  Indices are *)
(* 0-based and ranges half-open, as in Python.                              *)

\* every block a[i:i+k] == b[j:j+k], k > 0, inside a[alo:ahi] and b[blo:bhi]
Matches(a, b, alo, ahi, blo, bhi) ==
    {m \in (alo..(ahi - 1)) \X (blo..(bhi - 1)) \X (1..(ahi - alo)) :
        /\ m[1] + m[3] <= ahi
        /\ m[2] + m[3] <= bhi
        /\ \A d \in 0..(m[3] - 1) : a[m[1] + d + 1] = b[m[2] + d + 1]}

\* the longest block; of those the one starting earliest in a; of those the
\* one starting earliest in b; (alo, blo, 0) when no element matches
find_longest_match(a, b, alo, ahi, blo, bhi) ==
    LET ms == Matches(a, b, alo, ahi, blo, bhi)
    IN  IF ms = {} THEN <<alo, blo, 0>>
        ELSE CHOOSE m \in ms : \A n \in ms :
                \/ m[3] > n[3]
                \/ m[3] = n[3] /\ m[1] < n[1]
                \/ m[3] = n[3] /\ m[1] = n[1] /\ m[2] <= n[2]

\* the blocks found by the queue of get_matching_blocks, sorted
RECURSIVE MatchingBlocksIn(_, _, _, _, _, _)
MatchingBlocksIn(a, b, alo, ahi, blo, bhi) ==
    LET x == find_longest_match(a, b, alo, ahi, blo, bhi)
        i == x[1]
        j == x[2]
        k == x[3]
    IN  IF k = 0 THEN <<>>
        ELSE (IF alo < i /\ blo < j THEN MatchingBlocksIn(a, b, alo, i, blo, j) ELSE <<>>)
             \o <<x>>
             \o (IF i + k < ahi /\ j + k < bhi
                 THEN MatchingBlocksIn(a, b, i + k, ahi, j + k, bhi) ELSE <<>>)

\* adjacent blocks are collapsed into one
RECURSIVE CollapseBlocks(_, _)
CollapseBlocks(blocks, cur) ==
    IF blocks = <<>> THEN (IF cur[3] > 0 THEN <<cur>> ELSE <<>>)
    ELSE LET nxt == Head(blocks)
         IN  IF cur[1] + cur[3] = nxt[1] /\ cur[2] + cur[3] = nxt[2]
             THEN CollapseBlocks(Tail(blocks), <<cur[1], cur[2], cur[3] + nxt[3]>>)
             ELSE (IF cur[3] > 0 THEN <<cur>> ELSE <<>>) \o CollapseBlocks(Tail(blocks), nxt)

get_matching_blocks(a, b) ==
    CollapseBlocks(MatchingBlocksIn(a, b, 0, Len(a), 0, Len(b)), <<0, 0, 0>>)
        \o <<<<Len(a), Len(b), 0>>>>

Opcode(tag, a_start, a_end, b_start, b_end) ==
    [tag |-> tag, a_start |-> a_start, a_end |-> a_end, b_start |-> b_start, b_end |-> b_end]

RECURSIVE OpcodesFrom(_, _, _)
OpcodesFrom(blocks, i, j) ==
    IF blocks = <<>> THEN <<>>
    ELSE LET ai   == Head(blocks)[1]
             bj   == Head(blocks)[2]
             size == Head(blocks)[3]
             tag  == IF i < ai /\ j < bj THEN "replace"
                     ELSE IF i < ai THEN "delete"
                     ELSE IF j < bj THEN "insert"
                     ELSE ""
         IN  (IF tag # "" THEN <<Opcode(tag, i, ai, j, bj)>> ELSE <<>>)
             \o (IF size > 0 THEN <<Opcode("equal", ai, ai + size, bj, bj + size)>> ELSE <<>>)
             \o OpcodesFrom(Tail(blocks), ai + size, bj + size)

get_opcodes(a, b) == OpcodesFrom(get_matching_blocks(a, b), 0, 0)

-----------------------------------------------------------------------------
(* The callbacks ProjectMergeTool.run hands to diff_sequence.  lvl is "row" *)
(* (update_row, delete_row, insert_row) or "obj" (update_object, ...).      *)
(* Every callback logs one console event per record it is given: the       *)
(* "Updated/Deleted/Inserted ..." line, with skipped saying that a         *)
(* "Skipped ..." line followed it.                                         *)

Event(lvl, op, id, with, skipped, out) ==
    [lvl |-> lvl, op |-> op, id |-> id, with |-> with, skipped |-> skipped, out |-> out]

\* update_row, lines 295-301
RowUpdateSkipped(a, id) ==
    \/ id \in a.skip_rows
    \/ a.only_rows # {} /\ id \notin a.only_rows

\* update_object, lines 240-246
ObjectUpdateSkipped(a, id) ==
    \/ id \in a.skip_objs
    \/ a.only_rows # {} /\ id \notin a.only_objs

\* delete_row and insert_row, lines 333-341 and 351-357
RowSkipped(a, id) ==
    \/ id \in a.skip_rows
    \/ a.only_rows # {} /\ id \notin a.only_rows

\* delete_object and insert_object, lines 254-262 and 272-278
ObjectSkipped(a, id) ==
    \/ id \in a.skip_objs
    \/ a.only_objs # {} /\ id \notin a.only_objs

ItemSkipped(lvl, a, id) ==
    IF lvl = "row" THEN RowSkipped(a, id) ELSE ObjectSkipped(a, id)

\* delete_row / delete_object: the records the policy keeps
delete_item(lvl, a, items) ==
    [kept |-> SelectSeq(items, LAMBDA it : ItemSkipped(lvl, a, it["id"])),
     log  |-> [i \in 1..Len(items) |->
                 Event(lvl, "delete", items[i]["id"], items[i]["id"],
                       ItemSkipped(lvl, a, items[i]["id"]), items[i]["id"])]]

\* insert_row / insert_object: the records the policy admits
insert_item(lvl, a, items) ==
    [kept |-> SelectSeq(items, LAMBDA it : ~ItemSkipped(lvl, a, it["id"])),
     log  |-> [i \in 1..Len(items) |->
                 Event(lvl, "insert", items[i]["id"], items[i]["id"],
                       ItemSkipped(lvl, a, items[i]["id"]), items[i]["id"])]]

\* What an update callback gives: the record returned (item), the two
\* argument records as the call leaves them (old, new), its console events,
\* and err when it raised.
Updated(err, item, old, new, evs) ==
    [err |-> err, item |-> item, old |-> old, new |-> new, log |-> evs]

\* line 248: what update_object returns once update_dict has given r
ObjectMerged(old_obj, new_obj, r) ==
    IF r.err
    THEN Updated(TRUE, old_obj, old_obj, new_obj,
                 <<Event("obj", "update", old_obj["id"], new_obj["id"], FALSE, 0)>>)
    ELSE Updated(FALSE, r.data, old_obj, new_obj,
                 <<Event("obj", "update", old_obj["id"], new_obj["id"], FALSE, r.data["id"])>>)

update_object(a, old_obj, new_obj) ==
    IF ObjectUpdateSkipped(a, old_obj["id"])
    THEN Updated(FALSE, old_obj, old_obj, new_obj,
                 <<Event("obj", "update", old_obj["id"], new_obj["id"], TRUE, old_obj["id"])>>)
    ELSE ObjectMerged(old_obj, new_obj, update_dict(old_obj, new_obj))

RECURSIVE diff_sequence(_, _, _, _)

\* lines 306-311: the row's own fields, with "objects" popped from both
MergeRowData(old1, new1) ==
    IF obj_hash(old1) # obj_hash(new1)
    THEN update_dict(old1, new1)
    ELSE [err |-> FALSE, data |-> old1, changed |-> FALSE]

\* lines 313-325: the value given to updated_row["objects"]
MergeRowObjects(a, old_objects, new_objects) ==
    IF DumpList(old_objects) # DumpList(new_objects)
    THEN diff_sequence("obj", old_objects, new_objects, a)
    ELSE [err |-> FALSE, out |-> old_objects, log |-> <<>>]

\* lines 303-327: r is what MergeRowData gave, n what MergeRowObjects gave.
\* updated_row is old_row itself unless update_dict built a new dict, and
\* then line 323/325 writes "objects" back into old_row.
RowMerged(old_row, new_row, old1, new1, r, n) ==
    IF r.err
    THEN Updated(TRUE, old1, old1, new1,
                 <<Event("row", "update", old_row["id"], new_row["id"], FALSE, 0)>>)
    ELSE IF n.err
    THEN Updated(TRUE, old1, old1, new1,
                 <<Event("row", "update", old_row["id"], new_row["id"], FALSE, 0)>> \o n.log)
    ELSE Updated(FALSE, Put(r.data, "objects", n.out),
                 IF r.changed THEN old1 ELSE Put(r.data, "objects", n.out),
                 new1,
                 <<Event("row", "update", old_row["id"], new_row["id"], FALSE, r.data["id"])>>
                     \o n.log)

update_row(a, old_row, new_row) ==
    IF RowUpdateSkipped(a, old_row["id"])
    THEN Updated(FALSE, old_row, old_row, new_row,
                 <<Event("row", "update", old_row["id"], new_row["id"], TRUE, old_row["id"])>>)
    ELSE RowMerged(old_row, new_row, Pop(old_row, "objects"), Pop(new_row, "objects"),
                   MergeRowData(Pop(old_row, "objects"), Pop(new_row, "objects")),
                   MergeRowObjects(a, PopValue(old_row, "objects", <<>>),
                                   PopValue(new_row, "objects", <<>>)))

update_item(lvl, a, old, new) ==
    IF lvl = "row" THEN update_row(a, old, new) ELSE update_object(a, old, new)

-----------------------------------------------------------------------------
(* diff_sequence.  A run is the record st: the two lists as the callbacks   *)
(* have left them (a, b), seq_out (out), the four counters (counts), the   *)
(* console events (log), and err once a callback has raised.  origin is    *)
(* kept beside out: for each record of seq_out the 1-based index of the    *)
(* seq_a record it was copied, retained or updated from, 0 for a record    *)
(* that insert_item admitted.                                              *)

SummaryEvent(lvl, c, len_a, len_out) ==
    [lvl |-> lvl, op |-> "summary", counts |-> c, len_a |-> len_a, len_out |-> len_out]

\* SegEqual with the slice of line 56 one record short
SegEqualShort(st, op, lvl, a) ==
    [st EXCEPT !.out = @ \o Slice(st.a, op.a_start, op.a_end - 1),
               !.origin = @ \o [k \in 1..(op.a_end - 1 - op.a_start) |-> op.a_start + k],
               !.counts.equal = @ + 1]

\* lines 55-57
SegEqual(st, op, lvl, a) ==
    [st EXCEPT !.out = @ \o Slice(st.a, op.a_start, op.a_end),
               !.origin = @ \o [k \in 1..(op.a_end - op.a_start) |-> op.a_start + k],
               !.counts.equal = @ + 1]

\* seq_out.append(item_data) after u == update_item(seq_a[ia], seq_b[ib])
ApplyUpdate(st, ia, ib, u) ==
    [st EXCEPT !.a[ia] = u.old, !.b[ib] = u.new,
               !.log = @ \o u.log, !.err = u.err,
               !.out = IF u.err THEN @ ELSE Append(@, u.item),
               !.origin = IF u.err THEN @ ELSE Append(@, ia)]

\* lines 62-64: the k-th pair of zip(old_rows, new_rows) and those after it
RECURSIVE ZipLoop(_, _, _, _, _)
ZipLoop(st, op, k, lvl, a) ==
    IF st.err \/ k = op.a_end - op.a_start THEN st
    ELSE ZipLoop(ApplyUpdate(st, op.a_start + k + 1, op.b_start + k + 1,
                             update_item(lvl, a, st.a[op.a_start + k + 1],
                                         st.b[op.b_start + k + 1])),
                 op, k + 1, lvl, a)

\* line 66
CountReplaced(st, n) ==
    IF st.err THEN st ELSE [st EXCEPT !.counts.replace = @ + n]

\* lines 58-66
SegReplaceZip(st, op, lvl, a) ==
    CountReplaced(ZipLoop(st, op, 0, lvl, a), op.a_end - op.a_start)

\* line 73 (the ids of the hash lists are the ids of the records)
updated_ids(st, op) ==
    {st.a[i]["id"] : i \in (op.a_start + 1)..op.a_end}
        \cap {st.b[j]["id"] : j \in (op.b_start + 1)..op.b_end}

\* DeleteLoop with line 82 counting every old row it hands to delete_item
RECURSIVE DeleteLoopCountsAll(_, _, _, _, _)
DeleteLoopCountsAll(st, op, k, lvl, a) ==
    IF k = op.a_end - op.a_start THEN st
    ELSE LET ia == op.a_start + k + 1
             d  == delete_item(lvl, a, <<st.a[ia]>>)
         IN  IF st.a[ia]["id"] \in updated_ids(st, op)
             THEN DeleteLoopCountsAll(st, op, k + 1, lvl, a)
             ELSE DeleteLoopCountsAll(
                     [st EXCEPT !.out = @ \o d.kept,
                                !.origin = @ \o [x \in 1..Len(d.kept) |-> ia],
                                !.counts.delete = @ + 1,
                                !.log = @ \o d.log],
                     op, k + 1, lvl, a)

\* lines 76-82
RECURSIVE DeleteLoop(_, _, _, _, _)
DeleteLoop(st, op, k, lvl, a) ==
    IF k = op.a_end - op.a_start THEN st
    ELSE LET ia == op.a_start + k + 1
             d  == delete_item(lvl, a, <<st.a[ia]>>)
         IN  IF st.a[ia]["id"] \in updated_ids(st, op)
             THEN DeleteLoop(st, op, k + 1, lvl, a)
             ELSE DeleteLoop(
                     [st EXCEPT !.out = @ \o d.kept,
                                !.origin = @ \o [x \in 1..Len(d.kept) |-> ia],
                                !.counts.delete = @ + (1 - Len(d.kept)),
                                !.log = @ \o d.log],
                     op, k + 1, lvl, a)

\* line 75: old_rows_items[row_id], as an index into seq_a
OldIndexOf(st, op, row_id) ==
    CHOOSE i \in (op.a_start + 1)..op.a_end : st.a[i]["id"] = row_id

\* lines 84-92
RECURSIVE InsertLoop(_, _, _, _, _)
InsertLoop(st, op, k, lvl, a) ==
    IF st.err \/ k = op.b_end - op.b_start THEN st
    ELSE LET ib == op.b_start + k + 1
             row_id == st.b[ib]["id"]
             ins == insert_item(lvl, a, <<st.b[ib]>>)
         IN  IF row_id \in updated_ids(st, op)
             THEN InsertLoop(
                     CountReplaced(
                        ApplyUpdate(st, OldIndexOf(st, op, row_id), ib,
                                    update_item(lvl, a, st.a[OldIndexOf(st, op, row_id)],
                                                st.b[ib])),
                        1),
                     op, k + 1, lvl, a)
             ELSE InsertLoop(
                     [st EXCEPT !.out = @ \o ins.kept,
                                !.origin = @ \o [x \in 1..Len(ins.kept) |-> 0],
                                !.counts.insert = @ + Len(ins.kept),
                                !.log = @ \o ins.log],
                     op, k + 1, lvl, a)

\* lines 67-92
SegReplaceById(st, op, lvl, a) ==
    InsertLoop(DeleteLoop(st, op, 0, lvl, a), op, 0, lvl, a)

\* the indices of the records of seq_a[a_start:a_end] that delete_item keeps
KeptIndices(st, op, lvl, a) ==
    SelectSeq([k \in 1..(op.a_end - op.a_start) |-> op.a_start + k],
              LAMBDA i : ItemSkipped(lvl, a, st.a[i]["id"]))

\* lines 93-97
SegDelete(st, op, lvl, a) ==
    LET d == delete_item(lvl, a, Slice(st.a, op.a_start, op.a_end))
    IN  [st EXCEPT !.out = @ \o d.kept,
                   !.origin = @ \o KeptIndices(st, op, lvl, a),
                   !.counts.delete = @ + ((op.a_end - op.a_start) - Len(d.kept)),
                   !.log = @ \o d.log]

\* lines 98-101
SegInsert(st, op, lvl, a) ==
    LET ins == insert_item(lvl, a, Slice(st.b, op.b_start, op.b_end))
    IN  [st EXCEPT !.out = @ \o ins.kept,
                   !.origin = @ \o [x \in 1..Len(ins.kept) |-> 0],
                   !.counts.insert = @ + Len(ins.kept),
                   !.log = @ \o ins.log]

IsReplaceZip(op) == op.tag = "replace" /\ op.a_end - op.a_start = op.b_end - op.b_start

IsReplaceById(op) == op.tag = "replace" /\ op.a_end - op.a_start # op.b_end - op.b_start

\* one pass of the loop of line 54
SegStep(st, op, lvl, a) ==
    IF op.tag = "equal" THEN SegEqual(st, op, lvl, a)
    ELSE IF IsReplaceZip(op) THEN SegReplaceZip(st, op, lvl, a)
    ELSE IF IsReplaceById(op) THEN SegReplaceById(st, op, lvl, a)
    ELSE IF op.tag = "delete" THEN SegDelete(st, op, lvl, a)
    ELSE IF op.tag = "insert" THEN SegInsert(st, op, lvl, a)
    ELSE st

RECURSIVE RunOps(_, _, _, _)
RunOps(st, opcodes, lvl, a) ==
    IF st.err \/ opcodes = <<>> THEN st
    ELSE RunOps(SegStep(st, Head(opcodes), lvl, a), Tail(opcodes), lvl, a)

ZeroCounts == [equal |-> 0, replace |-> 0, delete |-> 0, insert |-> 0]

StartRun(sa, sb) ==
    [a |-> sa, b |-> sb, out |-> <<>>, origin |-> <<>>, counts |-> ZeroCounts,
     log |-> <<>>, err |-> FALSE]

\* the whole of diff_sequence, as update_row calls it on the objects of a row
\* line 103
CallSummary(st, lvl, len_a) ==
    IF st.err THEN st
    ELSE [st EXCEPT !.log = Append(@, SummaryEvent(lvl, st.counts, len_a, Len(st.out)))]

\* the whole of diff_sequence, as update_row calls it on the objects of a row
diff_sequence(lvl, sa, sb, a) ==
    CallSummary(RunOps(StartRun(sa, sb),
                       get_opcodes(hash_objects(sa), hash_objects(sb)), lvl, a),
                lvl, Len(sa))

-----------------------------------------------------------------------------
(* The inputs the model draws from *)

RowIds == {1, 2}

ObjIds == {11, 12}

Obj(id, title) == [id |-> id, title |-> title]

\* what a row holds beside its id
RowBodies ==
    {[title |-> "a"],
     [title |-> "b"],
     [title |-> "a", isActive |-> TRUE],
     [title |-> "a", objects |-> <<Obj(11, "a")>>],
     [title |-> "a", objects |-> <<Obj(11, "b")>>],
     [title |-> "b", objects |-> <<Obj(12, "a"), Obj(11, "a")>>]}

Rows == {Put(body, "id", id) : body \in RowBodies, id \in RowIds}

\* the lists of at most n records of S with pairwise different ids
UniqueIdSeqs(S, n) ==
    {s \in UNION {[1..k -> S] : k \in 0..n} :
        \A i, j \in 1..Len(s) : i # j => s[i]["id"] # s[j]["id"]}

RowSeqs == UniqueIdSeqs(Rows, MaxLen)

\* the rows of the longer runs: three ids, and lists of up to MaxLen rows
LongIds == {1, 2, 3}

LongBodies == {[title |-> "a"], [title |-> "b"]}

LongRows ==
    {Put(body, "id", id) : body \in LongBodies, id \in LongIds}
        \cup {[id |-> 1, title |-> "a", objects |-> <<Obj(11, "a")>>]}

LongSeqs == UniqueIdSeqs(LongRows, MaxLen)

LongArgChoices ==
    [skip_rows : SUBSET {1}, only_rows : SUBSET {2}, skip_objs : {{}}, only_objs : {{}}]

ArgChoices ==
    [skip_rows : SUBSET {1}, only_rows : SUBSET {1},
     skip_objs : SUBSET {11}, only_objs : SUBSET {11}]

NoArgs == [skip_rows |-> {}, only_rows |-> {}, skip_objs |-> {}, only_objs |-> {}]

\* the records update_dict is tried on
DictBodies ==
    {[title |-> "a"], [title |-> "b"]}

WithOptional(S, key, values) == S \cup {Put(d, key, v) : d \in S, v \in values}

Dicts ==
    {Put(d, "id", 1) :
        d \in WithOptional(WithOptional(WithOptional(DictBodies,
                "text", {"t", "u"}), "isActive", {TRUE, FALSE}), "note", {"m", "n"})}

-----------------------------------------------------------------------------
(* ProjectMergeTool.run: diff_sequence on the rows of the project and of    *)
(* the patch, one action per kind of segment of the loop of line 54.       *)

Cur ==
    [a |-> seq_a, b |-> seq_b, out |-> seq_out, origin |-> origin, counts |-> counts,
     log |-> log, err |-> FALSE]

Init ==
    /\ seq_a \in RowSeqs
    /\ seq_b \in RowSeqs
    /\ old0 = seq_a
    /\ new0 = seq_b
    /\ args \in ArgChoices
    /\ pc = "start"
    /\ ops = <<>>
    /\ idx = 0
    /\ seq_out = <<>>
    /\ origin = <<>>
    /\ counts = ZeroCounts
    /\ log = <<>>
    /\ d_old = EmptyDict
    /\ d_new = EmptyDict
    /\ d_res = [pc |-> "idle"]

\* lines 45-53
Start ==
    /\ pc = "start"
    /\ ops' = get_opcodes(hash_objects(seq_a), hash_objects(seq_b))
    /\ idx' = 1
    /\ pc' = "loop"
    /\ UNCHANGED <<seq_a, seq_b, old0, new0, args, seq_out, origin, counts, log>>
    /\ UNCHANGED dictVars

\* the state after one pass of the loop; a callback that raised ends the run
Pass(st) ==
    /\ seq_a' = st.a
    /\ seq_b' = st.b
    /\ seq_out' = st.out
    /\ origin' = st.origin
    /\ counts' = st.counts
    /\ log' = st.log
    /\ pc' = IF st.err THEN "error" ELSE "loop"
    /\ idx' = idx + 1
    /\ UNCHANGED <<old0, new0, args, ops>>
    /\ UNCHANGED dictVars

AtOp == pc = "loop" /\ idx <= Len(ops)

StepEqual ==
    /\ AtOp
    /\ ops[idx].tag = "equal"
    /\ Pass(SegEqual(Cur, ops[idx], "row", args))

StepReplaceZip ==
    /\ AtOp
    /\ IsReplaceZip(ops[idx])
    /\ Pass(SegReplaceZip(Cur, ops[idx], "row", args))

StepReplaceById ==
    /\ AtOp
    /\ IsReplaceById(ops[idx])
    /\ Pass(SegReplaceById(Cur, ops[idx], "row", args))

StepDelete ==
    /\ AtOp
    /\ ops[idx].tag = "delete"
    /\ Pass(SegDelete(Cur, ops[idx], "row", args))

StepInsert ==
    /\ AtOp
    /\ ops[idx].tag = "insert"
    /\ Pass(SegInsert(Cur, ops[idx], "row", args))

\* lines 103-104
Summary ==
    /\ pc = "loop"
    /\ idx > Len(ops)
    /\ log' = CallSummary(Cur, "row", Len(seq_a)).log
    /\ pc' = "done"
    /\ UNCHANGED <<seq_a, seq_b, old0, new0, args, ops, idx, seq_out, origin, counts>>
    /\ UNCHANGED dictVars

Next ==
    \/ Start
    \/ StepEqual
    \/ StepReplaceZip
    \/ StepReplaceById
    \/ StepDelete
    \/ StepInsert
    \/ Summary

Spec == Init /\ [][Next]_vars

-----------------------------------------------------------------------------
(* update_dict on its own: one call on every pair of records of Dicts *)

InitDict ==
    /\ d_old \in Dicts
    /\ d_new \in Dicts
    /\ d_res = [pc |-> "call"]
    /\ seq_a = <<>>
    /\ seq_b = <<>>
    /\ old0 = <<>>
    /\ new0 = <<>>
    /\ args = NoArgs
    /\ pc = "idle"
    /\ ops = <<>>
    /\ idx = 0
    /\ seq_out = <<>>
    /\ origin = <<>>
    /\ counts = ZeroCounts
    /\ log = <<>>

CallUpdateDict ==
    /\ d_res.pc = "call"
    /\ d_res' = [pc |-> "returned", res |-> update_dict(d_old, d_new)]
    /\ UNCHANGED <<d_old, d_new>>
    /\ UNCHANGED mergeVars

NextDict == CallUpdateDict

SpecDict == InitDict /\ [][NextDict]_vars

-----------------------------------------------------------------------------
(* The same run on lists of up to MaxLen rows over three ids *)

InitSeq ==
    /\ seq_a \in LongSeqs
    /\ seq_b \in LongSeqs
    /\ old0 = seq_a
    /\ new0 = seq_b
    /\ args \in LongArgChoices
    /\ pc = "start"
    /\ ops = <<>>
    /\ idx = 0
    /\ seq_out = <<>>
    /\ origin = <<>>
    /\ counts = ZeroCounts
    /\ log = <<>>
    /\ d_old = EmptyDict
    /\ d_new = EmptyDict
    /\ d_res = [pc |-> "idle"]

SpecSeq == InitSeq /\ [][Next]_vars

-----------------------------------------------------------------------------
(* Claims *)

CallbackOps == {"update", "delete", "insert"}

LogEvents == Range(log)

Returned == d_res.pc = "returned"

\* C1: once the run is done, every row of the merged sequence whose id is in
\* skip-rows and is the id of an old row equals that old row, field for field.
C1_SkipRowsKeepOld ==
    pc = "done" =>
        \A i \in 1..Len(old0) : \A j \in 1..Len(seq_out) :
            (old0[i]["id"] \in args.skip_rows /\ seq_out[j]["id"] = old0[i]["id"])
                => seq_out[j] = old0[i]

\* C2: for every protected key of the old or the new record, update_dict
\* returns a record that has the old record's value for it (and lacks the key
\* when the old record lacks it), and the key sets no change flag.
C2_ProtectedKeys ==
    Returned =>
        \A k \in Range(IGNORE_KEYS) :
            (Has(d_old, k) \/ Has(d_new, k)) =>
                /\ ~d_res.res.err
                /\ Has(d_old, k) => (Has(d_res.res.data, k) /\ d_res.res.data[k] = d_old[k])
                /\ ~Has(d_old, k) => ~Has(d_res.res.data, k)
                /\ k \notin d_res.res.flagged

\* C3: every record an update callback returned for an old and a new record
\* (out is 0 when the callback raised) has the id of the old record.
C3_UpdateKeepsId ==
    \A e \in LogEvents : (e.op = "update" /\ e.out # 0) => e.out = e.id

\* C4: merging a row sequence with an identical copy never raises, calls no
\* update, delete or insert callback, and ends with the sequence itself and
\* zero updated, deleted and inserted records handed to summary.
C4_Idempotence ==
    old0 = new0 =>
        /\ pc # "error"
        /\ \A e \in LogEvents : e.op \notin CallbackOps
        /\ pc = "done" =>
            /\ seq_out = old0
            /\ Len(log) = 1
            /\ log[1].op = "summary"
            /\ log[1].counts.replace = 0
            /\ log[1].counts.delete = 0
            /\ log[1].counts.insert = 0

C4_Witness ==
    /\ pc = "done"
    /\ old0 = new0
    /\ Len(old0) = 2
    /\ \E i \in 1..Len(old0) : Has(old0[i], "objects")
    /\ args.skip_rows # {}
    /\ args.only_rows # {}

\* C5: an object callback skips the object exactly when its id is in
\* skip-objects, or only-objects is not empty and lacks the id, whichever of
\* update_object, delete_object and insert_object is called.
ObjectExcluded(a, id) ==
    \/ id \in a.skip_objs
    \/ a.only_objs # {} /\ id \notin a.only_objs

C5_ObjectPolicy ==
    \A e \in LogEvents :
        (e.lvl = "obj" /\ e.op \in CallbackOps) => (e.skipped <=> ObjectExcluded(args, e.id))

\* C6: the rows of the old and of the new sequence are at all times, also
\* after an error, the rows they were when diff_sequence was called.
C6_InputsUnchanged == seq_a = old0 /\ seq_b = new0

\* C7: once the run is done, the records of the merged sequence that stem
\* from old records are in the order of those old records.
C7_OldOrderKept ==
    pc = "done" =>
        \A i, j \in 1..Len(origin) :
            (i < j /\ origin[i] # 0 /\ origin[j] # 0) => origin[i] < origin[j]

\* C8: once the run is done, the ids of the merged sequence are pairwise
\* different.
C8_UniqueIds ==
    pc = "done" =>
        \A i, j \in 1..Len(seq_out) : i # j => seq_out[i]["id"] # seq_out[j]["id"]

\* C9 as stated: an important key of the old record that the new record
\* holds with an equal value or lacks is in the record update_dict returns,
\* with the old value, and sets no change flag.
C9_ImportantKeysStay ==
    Returned =>
        \A k \in Range(IMPORTANT_KEYS) :
            (Has(d_old, k) /\ (~Has(d_new, k) \/ d_new[k] = d_old[k])) =>
                /\ k \notin d_res.res.flagged
                /\ ~d_res.res.err
                /\ Has(d_res.res.data, k)
                /\ d_res.res.data[k] = d_old[k]

\* C9 amended: an important key that the old and the new record hold with
\* equal values sets no change flag, and update_dict never returns a record
\* that lacks the key or has another value for it than the old record's.
C9_EqualImportantKeysStay ==
    Returned =>
        \A k \in Range(IMPORTANT_KEYS) :
            (Has(d_old, k) /\ Has(d_new, k) /\ d_new[k] = d_old[k]) =>
                /\ k \notin d_res.res.flagged
                /\ ~d_res.res.err => (Has(d_res.res.data, k) /\ d_res.res.data[k] = d_old[k])

C9_Witness ==
    /\ Returned
    /\ ~d_res.res.err
    /\ d_res.res.changed
    /\ Has(d_old, "text") /\ Has(d_new, "text") /\ d_old["text"] = d_new["text"]
    /\ d_res.res.data["text"] = d_old["text"]

\* C10: every call of summary gets counts with len(merged) = len(old) -
\* delete_count + insert_count and neither count negative, and the row-level
\* replace_count is the number of update_row calls.
Conserved(e) ==
    /\ e.len_out = e.len_a - e.counts.delete + e.counts.insert
    /\ e.counts.delete >= 0
    /\ e.counts.insert >= 0

C10_CountConservation ==
    /\ \A e \in LogEvents : e.op = "summary" => Conserved(e)
    /\ pc = "done" =>
        /\ log[Len(log)].op = "summary"
        /\ log[Len(log)].lvl = "row"
        /\ log[Len(log)].len_a = Len(old0)
        /\ log[Len(log)].len_out = Len(seq_out)
        /\ log[Len(log)].counts.replace =
              Cardinality({i \in 1..Len(log) : log[i].op = "update" /\ log[i].lvl = "row"})

C10_Witness ==
    /\ pc = "done"
    /\ counts.replace > 0
    /\ \E e \in LogEvents : e.op = "delete" /\ e.lvl = "row" /\ e.skipped
    /\ \E i \in 1..Len(ops) : IsReplaceById(ops[i])

====
